---- MODULE Spec2Model ----
(***************************************************************************)
(* Model of playbook/library/zabbix_metrics.py: an Ansible module that     *)
(* logs in to a Zabbix server, resolves the monitored items of each        *)
(* requested host, fetches their history over daily working-hour windows,  *)
(* reduces it to min/avg/max and writes the rows to an Excel report.       *)
(*                                                                         *)
(* Conventions of the model                                                *)
(*   - A string that the program searches (item keys, item names) is a     *)
(*     sequence of tokens; "a in b" and re.search of a literal pattern are *)
(*     containment of a contiguous sub-sequence (Contains).                *)
(*   - Sample values are naturals.  A float is an IEEE-754 double, the     *)
(*     record [hi, lo, exp] that denotes (hi * 2^27 + lo) * 2^exp with a   *)
(*     53-bit significand (2^25 <= hi < 2^26, 0 <= lo < 2^27); zero is     *)
(*     [hi |-> 0, lo |-> 0, exp |-> 0].  Parsing a decimal and dividing    *)
(*     two floats round to nearest, ties to even, as the interpreter does. *)
(*     f"{x:.1f}" rounds to tenths, ties to even, which is what Python     *)
(*     prints for the averages of fewer than 20 integer samples.           *)
(*   - Time is UTC epoch seconds; a calendar date is <<year, month, day>>. *)
(*   - Every request to the Zabbix API is one step; its answer is an input *)
(*     of the step, and any request may raise.                             *)
(***************************************************************************)
EXTENDS Integers, Sequences, FiniteSets, TLC

\* ------------------------------------------------------------------ bounds
MaxHosts == 2
MaxDaysBack == 1
MaxSamples == 2
MaxElapsed == 1

\* --------------------------------------------------------------- constants
KEYS_TEMPLATE ==
  << <<"system.cpu.util">>,
     <<"vm.memory.util">>,
     <<"perf_counter_en[\"\\PhysicalDisk(0 C:)\\% Idle Time\",60]">>,
     <<"net.if.", "in">>,
     <<"net.if.", "out">> >>

DATA_COLUMNS == <<"Server", "Type", "unit measurements", "Min", "Avg", "Max">>

WorkStart == 9
WorkEnd == 18
SecondsPerHour == 3600
SecondsPerDay == 86400

\* ----------------------------------------------------------------- strings
Contains(sub, s) ==
  \E i \in 1..(Len(s) - Len(sub) + 1) : SubSeq(s, i, i + Len(sub) - 1) = sub

Range(s) == {s[i] : i \in 1..Len(s)}

SeqsUpTo(S, n) == UNION {[1..k -> S] : k \in 0..n}

\* ----------------------------------------------------------------- numbers
RECURSIVE SumSeq(_)
SumSeq(s) == IF s = <<>> THEN 0 ELSE Head(s) + SumSeq(Tail(s))

MaxOf(s) == CHOOSE x \in Range(s) : \A y \in Range(s) : y <= x
MinOf(s) == CHOOSE x \in Range(s) : \A y \in Range(s) : x <= y

\* The number of bits of a positive int.
BitLength(n) == CHOOSE k \in 1..31 : n \div 2^(k - 1) = 1

ZeroFloat == [hi |-> 0, lo |-> 0, exp |-> 0]

\* float(n) for a positive int n, which a double holds exactly.
IntFloat(n) ==
  LET len == BitLength(n)
  IN IF len <= 26 THEN [hi |-> n * 2^(26 - len), lo |-> 0, exp |-> len - 53]
     ELSE [hi |-> n \div 2^(len - 26),
           lo |-> (n % 2^(len - 26)) * 2^(53 - len),
           exp |-> len - 53]

\* x / D for a positive float x and an int 0 < D < 2^20: the double nearest to
\* the quotient, ties to even.  With the divisor scaled to 20 bits (d), the
\* integer quotient of significand * 2^22 by d has 55 or 56 bits: its first
\* 53 are the significand of the result, the next is the rounding bit, and
\* the rest, with the remainder, say whether the quotient lies beyond that
\* bit.  The division is long division in steps of at most 10 bits.
FloatDiv(x, D) ==
  LET len == BitLength(D)
      d == D * 2^(20 - len)
      v2 == (x.hi % d) * 2^10 + (x.lo \div 2^17)
      v3 == (v2 % d) * 2^10 + ((x.lo \div 2^7) % 2^10)
      v4 == (v3 % d) * 2^10 + (x.lo % 2^7) * 2^3
      v5 == (v4 % d) * 2^10
      v6 == (v5 % d) * 2^9
      top == (x.hi \div d) * 2^19 + (v2 \div d) * 2^9 + ((v3 \div d) \div 2)
      bot == ((v3 \div d) % 2) * 2^29 + (v4 \div d) * 2^19 + (v5 \div d) * 2^9
               + (v6 \div d)
      drop == IF top >= 2^25 THEN 3 ELSE 2
      hi == IF drop = 3 THEN top ELSE 2 * top + (bot \div 2^29)
      lo == (bot \div 2^drop) % 2^27
      round == (bot \div 2^(drop - 1)) % 2
      sticky == (bot % 2^(drop - 1)) # 0 \/ (v6 % d) # 0
      up == round = 1 /\ (sticky \/ lo % 2 = 1)
      exp == x.exp - len - 2 + drop
  IN IF x = ZeroFloat THEN ZeroFloat
     ELSE IF ~up THEN [hi |-> hi, lo |-> lo, exp |-> exp]
     ELSE IF lo + 1 < 2^27 THEN [hi |-> hi, lo |-> lo + 1, exp |-> exp]
     ELSE IF hi + 1 < 2^26 THEN [hi |-> hi + 1, lo |-> 0, exp |-> exp]
     ELSE [hi |-> 2^25, lo |-> 0, exp |-> exp + 1]

\* float("n/d") for a decimal with denominator d: the double nearest to n/d.
ToFloat(n, d) == IF n = 0 THEN ZeroFloat ELSE FloatDiv(IntFloat(n), d)

\* float(f"{n / d:.1f}"): n/d rounded to one decimal, ties to even, parsed
\* back into a double.
Format1f(n, d) ==
  LET q == (10 * n) \div d
      r == (10 * n) % d
      t == IF 2 * r < d THEN q
           ELSE IF 2 * r > d THEN q + 1
           ELSE IF q % 2 = 0 THEN q ELSE q + 1
  IN ToFloat(t, 10)

\* A conversion to kilobits instead of megabits.
bps_to_kbps(bps) == FloatDiv(bps, 1000)

bps_to_mbps(bps) == FloatDiv(bps, 1000000)

\* -------------------------------------------------------------------- time
\* The zones of the run and their UTC offsets around 2026-03-29, the day
\* Europe/Berlin switches to summer time at 01:00 UTC.
Timezones == {"Asia/Yekaterinburg", "Europe/Berlin"}
Day0 == 20541
BerlinSwitch == Day0 * SecondsPerDay + SecondsPerHour

\* tz.utcoffset of an aware instant (datetime.now(tz), astimezone).
UtcOffset(tz, utc) ==
  IF tz = "Asia/Yekaterinburg" THEN 5 * SecondsPerHour
  ELSE IF utc >= BerlinSwitch THEN 2 * SecondsPerHour ELSE SecondsPerHour

\* tz.localize of a naive wall-clock time (seconds of the local calendar).
LocalizeOffset(tz, wall) ==
  IF tz = "Asia/Yekaterinburg" THEN 5 * SecondsPerHour
  ELSE IF wall - SecondsPerHour >= BerlinSwitch THEN 2 * SecondsPerHour
       ELSE SecondsPerHour

\* date.strftime('%Y-%m-%d') of the day with the given ordinal since 1970-01-01.
CivilFromDays(z) ==
  LET zz == z + 719468
      era == zz \div 146097
      doe == zz - era * 146097
      yoe == (doe - doe \div 1460 + doe \div 36524 - doe \div 146096) \div 365
      doy == doe - (365 * yoe + yoe \div 4 - yoe \div 100)
      mp == (5 * doy + 2) \div 153
      d == doy - (153 * mp + 2) \div 5 + 1
      m == IF mp < 10 THEN mp + 3 ELSE mp - 9
      y == yoe + era * 400 + (IF m <= 2 THEN 1 ELSE 0)
  IN <<y, m, d>>

\* strftime('%Y-%m-%d %H:%M:%S UTC') of a UTC instant.
ReadableUtc(utc) ==
  LET s == utc % SecondsPerDay
  IN CivilFromDays(utc \div SecondsPerDay)
       \o <<s \div SecondsPerHour, (s % SecondsPerHour) \div 60, s % 60>>

\* int(change_utc2timestamp(t)): seconds since the epoch of a UTC instant.
Epoch == 0
change_utc2timestamp(utc_time) == utc_time - Epoch

\* An anchor that is always the local date.
BaseDateToday(tz, now) == (now + UtcOffset(tz, now)) \div SecondsPerDay

\* The anchor day: the local date, or the day before when it is not 09:00 yet.
BaseDate(tz, now) ==
  LET local == now + UtcOffset(tz, now)
      today == local \div SecondsPerDay
  IN IF local % SecondsPerDay < WorkStart * SecondsPerHour
       THEN today - 1
       ELSE today

DayWindow(tz, target_date) ==
  LET start_wall == target_date * SecondsPerDay + WorkStart * SecondsPerHour
      end_wall == target_date * SecondsPerDay + WorkEnd * SecondsPerHour
      start_utc == start_wall - LocalizeOffset(tz, start_wall)
      end_utc == end_wall - LocalizeOffset(tz, end_wall)
  IN [date |-> CivilFromDays(target_date),
      time_from |-> change_utc2timestamp(start_utc),
      time_till |-> change_utc2timestamp(end_utc),
      readable_utc_start |-> ReadableUtc(start_utc)]

get_timestamp_ekb2timestamp(tz, n, now) ==
  [i \in 1..(n + 1) |-> DayWindow(tz, BaseDate(tz, now) - (i - 1))]

\* ----------------------------------------------------- the Zabbix server
\* The hosts the server knows, by visible name, with their items in itemid
\* order. status 0 is an enabled item.
ZabbixHosts ==
  << [name |-> "web", hostid |-> 10, host |-> "web01",
      items |-> << [itemid |-> 1, name |-> <<"CPU", "utilization">>,
                    key_ |-> <<"system.cpu.util", "[,user]">>, status |-> 0],
                   [itemid |-> 2, name |-> <<"CPU", "usage">>,
                    key_ |-> <<"system.cpu.util">>, status |-> 0] >>],
     [name |-> "net", hostid |-> 20, host |-> "net01",
      items |-> << [itemid |-> 3, name |-> <<"Interface", "eth0:", "Bits", "received">>,
                    key_ |-> <<"net.if.", "in", "[eth0]">>, status |-> 0],
                   [itemid |-> 4, name |-> <<"Zabbix", "agent", "ping">>,
                    key_ |-> <<"agent.ping">>, status |-> 0] >>],
     [name |-> "db", hostid |-> 30, host |-> "db01",
      items |-> << [itemid |-> 5, name |-> <<"Memory", "usage">>,
                    key_ |-> <<"ratio[", "vm.memory.util", ",", "system.cpu.util", "]">>,
                    status |-> 0],
                   [itemid |-> 6, name |-> <<"Disk", "utilization">>,
                    key_ |-> <<"perf_counter_en[\"\\PhysicalDisk(0 C:)\\% Idle Time\",60]">>,
                    status |-> 1] >>],
     [name |-> "idle", hostid |-> 40, host |-> "idle01",
      items |-> << [itemid |-> 7, name |-> <<"Zabbix", "agent", "ping">>,
                    key_ |-> <<"agent.ping">>, status |-> 0] >>],
     [name |-> "gw", hostid |-> 50, host |-> "gw01",
      items |-> << [itemid |-> 8, name |-> <<"Interface", "eth0:", "Bits", "sent">>,
                    key_ |-> <<"net.if.", "out", "[eth0]">>, status |-> 0],
                   [itemid |-> 9, name |-> <<"Memory", "utilization">>,
                    key_ |-> <<"vm.memory.util">>, status |-> 0] >>],
     [name |-> "files", hostid |-> 60, host |-> "files01",
      items |-> << [itemid |-> 10, name |-> <<"C:", "Disk", "utilization">>,
                    key_ |-> <<"perf_counter_en[\"\\PhysicalDisk(0 C:)\\% Idle Time\",60]">>,
                    status |-> 0] >>],
     [name |-> "lab", hostid |-> 70, host |-> "lab01",
      items |-> << [itemid |-> 11, name |-> <<"bits", "received">>,
                    key_ |-> <<"net.if.", "in", "[lo]">>, status |-> 0] >>] >>

\* The names a run may be asked for; "ghost" is no host of the server.
HostNames == {"web", "net", "db", "idle", "gw", "files", "lab", "ghost"}
RunHosts == {"web", "net", "idle", "ghost"}

\* What history.get may answer: the newest n samples of a series that
\* alternates between a busy and an idle reading, newest first.
BusyValue == 2000000
IdleValue == 1
SampleAt(k) == IF k % 2 = 1 THEN BusyValue ELSE IdleValue
HistoryResponses == {[k \in 1..n |-> SampleAt(k)] : n \in 0..MaxSamples}
\* The two answers that decide whether an item gets a row: nothing, or a pair.
BriefResponses == {<<>>, <<SampleAt(1), SampleAt(2)>>}

\* zapi.host.get(filter={'name': host_name}, output=['hostid', 'host'])
HostGet(host_name) ==
  LET found == SelectSeq(ZabbixHosts, LAMBDA h : h.name = host_name)
  IN [i \in 1..Len(found) |-> [hostid |-> found[i].hostid, host |-> found[i].host]]

ItemsOfHost(host_id) ==
  LET found == SelectSeq(ZabbixHosts, LAMBDA h : h.hostid = host_id)
  IN IF found = <<>> THEN <<>> ELSE found[1].items

\* zapi.item.get({"hostids": host_id, ..., "filter": {"status": 0}})
ItemGetEnabled(host_id) ==
  SelectSeq(ItemsOfHost(host_id), LAMBDA it : it.status = 0)

\* zapi.item.get({"hostids": host_id, "search": {"key_": item_key}, ...})
ItemGetSearch(host_id, item_key) ==
  LET found == SelectSeq(ItemsOfHost(host_id), LAMBDA it : Contains(item_key, it.key_))
  IN [i \in 1..Len(found) |->
        [itemid |-> found[i].itemid, name |-> found[i].name, key_ |-> found[i].key_]]

\* ------------------------------------------------------------- aggregation
\* for item in all_items: for key in KEYS_TEMPLATE: if key in item['key_']
RECURSIVE MatchTemplates(_, _)
MatchTemplates(item_key, k) ==
  IF k > Len(KEYS_TEMPLATE) THEN <<>>
  ELSE (IF Contains(KEYS_TEMPLATE[k], item_key) THEN <<item_key>> ELSE <<>>)
         \o MatchTemplates(item_key, k + 1)

RECURSIVE MatchKeys(_)
MatchKeys(all_items) ==
  IF all_items = <<>> THEN <<>>
  ELSE MatchTemplates(Head(all_items).key_, 1) \o MatchKeys(Tail(all_items))

\* A storage class chosen for inbound counters only.
HistoryClassInbound(item_key) ==
  IF Contains(<<"net.if.", "in">>, item_key) THEN 3 ELSE 0

\* "history": 3 if "net.if." in item['key_'] else 0
HistoryClass(item_key) == IF Contains(<<"net.if.">>, item_key) THEN 3 ELSE 0

HistoryRequest(item, day_range) ==
  [api |-> "history.get",
   itemids |-> item.itemid,
   time_from |-> day_range.time_from,
   time_till |-> day_range.time_till,
   history |-> HistoryClass(item.key_)]

\* The avg/min/max entry of a list of at least two values.
Aggregate(values) ==
  [avg |-> Format1f(SumSeq(values), Len(values)),
   min |-> Format1f(MinOf(values), 1),
   max |-> Format1f(MaxOf(values), 1)]

\* A threshold of one sample instead of two.
HasEnoughOne(values) == Len(values) > 0

HasEnough(values) == Len(values) > 1

InitItem(item, hid, host_real_name, host_name) ==
  [itemid |-> item.itemid, name |-> item.name, key_ |-> item.key_,
   host |-> [hostid |-> hid, host_name |-> host_real_name, host_vname |-> host_name],
   list_of_days |-> <<>>,
   list_of_history_for_total |-> <<>>,
   list_of_total |-> <<>>,
   returned |-> <<>>]

\* A loop body that keeps the history of aggregated days only.
AddHistoryOfAggregatedDays(item, day_range, history) ==
  [item EXCEPT
     !.list_of_days =
        IF history # <<>> /\ Len(history) > 1
          THEN Append(@, [date |-> day_range.date, itemid |-> item.name,
                          history_count |-> Len(history)] @@ Aggregate(history))
          ELSE @,
     !.list_of_history_for_total =
        IF history # <<>> /\ Len(history) > 1 THEN @ \o history ELSE @,
     !.returned = Append(@, Len(history))]

\* One pass of the body of the history loop: the item after its history for
\* day_range has arrived. returned records how many samples each window gave.
AddHistory(item, day_range, history) ==
  [item EXCEPT
     !.list_of_days =
        IF history # <<>> /\ HasEnough(history)
          THEN Append(@, [date |-> day_range.date, itemid |-> item.name,
                          history_count |-> Len(history)] @@ Aggregate(history))
          ELSE @,
     !.list_of_history_for_total = IF history # <<>> THEN @ \o history ELSE @,
     !.returned = Append(@, Len(history))]

AddTotal(item) ==
  [item EXCEPT
     !.list_of_total =
        IF HasEnough(item.list_of_history_for_total)
          THEN Append(@, [itemid |-> item.name,
                          history_count |-> Len(item.list_of_history_for_total)]
                         @@ Aggregate(item.list_of_history_for_total))
          ELSE @]

\* re.search(r'Bits (received|sent)', name)
IsBits(name) ==
  Contains(<<"Bits", "received">>, name) \/ Contains(<<"Bits", "sent">>, name)

\* re.search(r'(Disk|CPU|Memory) utilization', name)
IsUtilization(name) ==
  \/ Contains(<<"Disk", "utilization">>, name)
  \/ Contains(<<"CPU", "utilization">>, name)
  \/ Contains(<<"Memory", "utilization">>, name)

UnitOf(name) ==
  IF IsBits(name) THEN "Mbps"
  ELSE IF IsUtilization(name) THEN "%"
  ELSE "count"

Convert(name, v) == IF ~IsBits(name) THEN v ELSE bps_to_mbps(v)

RowOf(item) ==
  LET total == item.list_of_total[1]
  IN <<item.host.host_vname, item.name, UnitOf(item.name),
       Convert(item.name, total.min),
       Convert(item.name, total.avg),
       Convert(item.name, total.max)>>

HasRow(item) == Len(item.list_of_total) > 0

\* The indices of the items that get a row, in item order.
RECURSIVE RowSources(_, _)
RowSources(its, k) ==
  IF k > Len(its) THEN <<>>
  ELSE (IF HasRow(its[k]) THEN <<k>> ELSE <<>>) \o RowSources(its, k + 1)

FormatRows(its) ==
  LET src == RowSources(its, 1)
  IN [r \in 1..Len(src) |-> RowOf(its[src[r]])]

RECURSIVE Flatten(_)
Flatten(ss) == IF ss = <<>> THEN <<>> ELSE Head(ss) \o Flatten(Tail(ss))

\* ------------------------------------------------------------------- state
NoResult == [status |-> "running"]
NoFile == [exists |-> FALSE]
DefaultPath == <<"/tmp", "server_metrics.xlsx">>
OutputPaths == {<<"", "report.xlsx">>, DefaultPath, <<"/srv/reports/new", "metrics.xlsx">>}
StaleReport == [exists |-> TRUE, columns |-> DATA_COLUMNS, rows |-> <<<<"stale">>>>]

VARIABLES
  HAS_ZABBIX,     \* module constant set at import
  host_names,     \* module.params['host_names']
  days_back,      \* module.params['days_back']
  timezone_str,   \* module.params['timezone']
  output_path,    \* module.params['output_path'], <<directory, file name>>
  now,            \* the wall clock, UTC epoch seconds
  elapsed,        \* seconds the clock has advanced since the run began
  dirs,           \* the directories that exist
  files,          \* the content of each path of OutputPaths
  pc,             \* position of main
  hi,             \* index in host_names of the host being collected
  host_id,        \* locals of collect_host_metrics
  keys,
  ki,
  day_ranges,
  items,
  di,
  ii,
  data,           \* what collect_host_metrics returned to main
  data_src,       \* for each row of data, the index in items of its item
  all_metrics,    \* main's accumulated rows
  outcome,        \* what exit_json / fail_json reported
  requests,       \* every request sent to the API, in order
  api_failed,     \* a request raised or found no host
  windows_used,   \* the window list each host was given, in host order
  rows_by_host    \* the rows each host returned, in host order

vars == <<HAS_ZABBIX, host_names, days_back, timezone_str, output_path, now,
          elapsed, dirs, files, pc, hi, host_id, keys, ki, day_ranges, items,
          di, ii, data, data_src, all_metrics, outcome, requests, api_failed,
          windows_used, rows_by_host>>

params == <<HAS_ZABBIX, host_names, days_back, timezone_str, output_path>>
fs == <<dirs, files>>
locals == <<host_id, keys, ki, day_ranges, items, di, ii, data, data_src>>

\* The instant one second before the local hour h of day Day0.
JustBefore(tz, h) ==
  LET wall == Day0 * SecondsPerDay + h * SecondsPerHour - 1
  IN wall - LocalizeOffset(tz, wall)

\* The run starts one second before 09:00 or before midnight, local time.
StartHours == {WorkStart, 24}

Start(lists, paths, libs, zones, hours) ==
  /\ HAS_ZABBIX \in libs
  /\ host_names \in lists
  /\ days_back \in 0..MaxDaysBack
  /\ timezone_str \in zones
  /\ output_path \in paths
  /\ now \in {JustBefore(timezone_str, h) : h \in hours}
  /\ elapsed = 0
  /\ dirs = {"/tmp"}
  /\ files = [p \in OutputPaths |-> IF p = DefaultPath THEN StaleReport ELSE NoFile]
  /\ pc = "start"
  /\ hi = 1
  /\ host_id = 0
  /\ keys = <<>>
  /\ ki = 1
  /\ day_ranges = <<>>
  /\ items = <<>>
  /\ di = 1
  /\ ii = 1
  /\ data = <<>>
  /\ data_src = <<>>
  /\ all_metrics = <<>>
  /\ outcome = NoResult
  /\ requests = <<>>
  /\ api_failed = FALSE
  /\ windows_used = <<>>
  /\ rows_by_host = <<>>

\* A whole run of main: up to MaxHosts requested hosts, any output path.
Init ==
  Start(SeqsUpTo(RunHosts, MaxHosts), OutputPaths, BOOLEAN,
        {"Asia/Yekaterinburg"}, {WorkStart})

\* A run for one requested host, to the default path.
InitCollect ==
  Start({<<h>> : h \in HostNames}, {DefaultPath}, {TRUE}, Timezones, StartHours)

\* ----------------------------------------------------------------- actions
ClearLocals ==
  /\ host_id' = 0
  /\ keys' = <<>>
  /\ ki' = 1
  /\ day_ranges' = <<>>
  /\ items' = <<>>
  /\ di' = 1
  /\ ii' = 1
  /\ data' = <<>>
  /\ data_src' = <<>>

\* except Exception as e: module.fail_json(msg=f"Error collecting metrics: {e}")
FailRun(e) ==
  /\ outcome' = [status |-> "failure", msg |-> <<"Error collecting metrics: ", e>>]
  /\ pc' = "done"
  /\ ClearLocals
  /\ UNCHANGED <<hi, all_metrics, dirs, files, windows_used, rows_by_host>>

\* A handler that gives up on the host and goes on with the next one.
ApiRaisesSkipHost(req) ==
  /\ requests' = Append(requests, req)
  /\ api_failed' = TRUE
  /\ hi' = hi + 1
  /\ pc' = IF hi + 1 > Len(host_names) THEN "write" ELSE "host_get"
  /\ ClearLocals
  /\ UNCHANGED <<outcome, all_metrics, dirs, files, windows_used, rows_by_host>>

\* A request that raises: the exception reaches main's handler.
ApiRaises(req) ==
  /\ requests' = Append(requests, req)
  /\ api_failed' = TRUE
  /\ FailRun("APIRequestError")

PcOfHost(h) == IF h > Len(host_names) THEN "write" ELSE "host_get"

\* if not HAS_ZABBIX: module.fail_json(...)
CheckLibrary ==
  /\ pc = "start"
  /\ IF HAS_ZABBIX
       THEN /\ pc' = "connect"
            /\ UNCHANGED outcome
       ELSE /\ pc' = "done"
            /\ outcome' = [status |-> "failure",
                           msg |-> "The zabbix-utils library is required for this module"]
  /\ UNCHANGED <<params, now, elapsed, fs, hi, locals, all_metrics, requests,
                 api_failed, windows_used, rows_by_host>>

\* zapi = connect_zabbix(zabbix_server, username, password)
ConnectZabbix ==
  /\ pc = "connect"
  /\ LET req == [api |-> "user.login"]
     IN \/ /\ requests' = Append(requests, req)
           /\ pc' = PcOfHost(1)
           /\ UNCHANGED <<fs, hi, locals, all_metrics, outcome, api_failed,
                          windows_used, rows_by_host>>
        \/ ApiRaises(req)
  /\ UNCHANGED <<params, now, elapsed>>

\* host_id, host_real_name = get_host_id(zapi, host_name)
GetHostId ==
  /\ pc = "host_get"
  /\ LET host_name == host_names[hi]
         req == [api |-> "host.get", name |-> host_name]
         hosts == HostGet(host_name)
     IN \/ /\ hosts # <<>>
           /\ requests' = Append(requests, req)
           /\ host_id' = hosts[1].hostid
           /\ pc' = "item_get"
           /\ UNCHANGED <<fs, hi, keys, ki, day_ranges, items, di, ii, data,
                          data_src, all_metrics, outcome, api_failed,
                          windows_used, rows_by_host>>
        \/ /\ hosts = <<>>
           /\ requests' = Append(requests, req)
           /\ api_failed' = TRUE
           /\ FailRun(<<"host not found", host_name>>)
        \/ ApiRaises(req)
  /\ UNCHANGED <<params, now, elapsed>>

\* The wall clock advances before it is read again.
Tick ==
  /\ pc = "item_get"
  /\ elapsed < MaxElapsed
  /\ now' = now + 1
  /\ elapsed' = elapsed + 1
  /\ UNCHANGED <<params, fs, pc, hi, locals, all_metrics, outcome, requests,
                 api_failed, windows_used, rows_by_host>>

\* collect_host_metrics returns data to main.
Return(its, rows, src) ==
  /\ items' = its
  /\ data' = rows
  /\ data_src' = src
  /\ pc' = "extend"

\* all_items = zapi.item.get(...); the keys are matched and the windows are
\* generated from the clock; with no key there is no item and no row.
GetAllItems ==
  /\ pc = "item_get"
  /\ LET req == [api |-> "item.get", hostids |-> host_id, search |-> <<>>]
         found == MatchKeys(ItemGetEnabled(host_id))
         windows == get_timestamp_ekb2timestamp(timezone_str, days_back, now)
     IN \/ /\ requests' = Append(requests, req)
           /\ keys' = found
           /\ day_ranges' = windows
           /\ windows_used' = Append(windows_used, windows)
           /\ IF found = <<>>
                THEN Return(<<>>, <<>>, <<>>)
                ELSE /\ pc' = "get_item"
                     /\ UNCHANGED <<items, data, data_src>>
           /\ UNCHANGED <<fs, hi, host_id, ki, di, ii, all_metrics, outcome,
                          api_failed, rows_by_host>>
        \/ ApiRaises(req)
  /\ UNCHANGED <<params, now, elapsed>>

HostRecord(hid) == SelectSeq(ZabbixHosts, LAMBDA h : h.hostid = hid)[1]

\* item_result = get_item(zapi, host_id, key); after the last key the items
\* are given their lists, or the host returns no row when there is no item.
GetItemFrom(vanished) ==
  /\ pc = "get_item"
  /\ LET key == keys[ki]
         req == [api |-> "item.get", hostids |-> host_id, search |-> key]
     IN \/ \E item_result \in {ItemGetSearch(host_id, key)} \cup vanished :
           LET its == IF item_result # <<>>
                        THEN Append(items, item_result[1])
                        ELSE items
           IN
           /\ requests' = Append(requests, req)
           /\ IF ki < Len(keys)
                THEN /\ ki' = ki + 1
                     /\ items' = its
                     /\ UNCHANGED <<pc, data, data_src>>
                ELSE /\ ki' = ki
                     /\ IF its = <<>>
                          THEN Return(<<>>, <<>>, <<>>)
                          ELSE /\ items' = [k \in 1..Len(its) |->
                                              InitItem(its[k], host_id,
                                                       HostRecord(host_id).host,
                                                       host_names[hi])]
                               /\ pc' = "history"
                               /\ UNCHANGED <<data, data_src>>
           /\ UNCHANGED <<fs, hi, host_id, keys, day_ranges, di, ii,
                          all_metrics, outcome, api_failed, windows_used,
                          rows_by_host>>
        \/ ApiRaises(req)
  /\ UNCHANGED <<params, now, elapsed>>

\* The search finds the items of the host as they are.
GetItem == GetItemFrom({})
\* The item may also have been deleted since it was listed.
GetItemAny == GetItemFrom({<<>>})

\* history = zapi.history.get(...) for one window and one item; after the
\* last window the totals are computed and the rows are formatted.
HistoryGetFrom(responses) ==
  /\ pc = "history"
  /\ LET req == HistoryRequest(items[ii], day_ranges[di])
     IN \/ \E history \in responses :
             LET its == [items EXCEPT ![ii] = AddHistory(@, day_ranges[di], history)]
                 totalled == [k \in 1..Len(its) |-> AddTotal(its[k])]
             IN /\ requests' = Append(requests, req)
                /\ IF ii < Len(items)
                     THEN /\ ii' = ii + 1
                          /\ items' = its
                          /\ UNCHANGED <<di, pc, data, data_src>>
                     ELSE IF di < Len(day_ranges)
                       THEN /\ di' = di + 1
                            /\ ii' = 1
                            /\ items' = its
                            /\ UNCHANGED <<pc, data, data_src>>
                       ELSE /\ Return(totalled, FormatRows(totalled),
                                      RowSources(totalled, 1))
                            /\ UNCHANGED <<di, ii>>
                /\ UNCHANGED <<fs, hi, host_id, keys, ki, day_ranges,
                               all_metrics, outcome, api_failed, windows_used,
                               rows_by_host>>
        \/ ApiRaises(req)
  /\ UNCHANGED <<params, now, elapsed>>

HistoryGet == HistoryGetFrom(BriefResponses)
HistoryGetAny == HistoryGetFrom(HistoryResponses)

\* An assignment instead of an extension.
ExtendByReplacing(metrics, host_metrics) == host_metrics

\* all_metrics.extend(host_metrics)
Extend(metrics, host_metrics) == metrics \o host_metrics

\* main takes the rows of the host; the host's working set is dropped.
ExtendMetrics ==
  /\ pc = "extend"
  /\ all_metrics' = Extend(all_metrics, data)
  /\ rows_by_host' = Append(rows_by_host, data)
  /\ hi' = hi + 1
  /\ pc' = PcOfHost(hi + 1)
  /\ ClearLocals
  /\ UNCHANGED <<params, now, elapsed, fs, outcome, requests, api_failed,
                 windows_used>>

DirExists(d) == d = "" \/ d \in dirs

Report(rows) == [exists |-> TRUE, columns |-> DATA_COLUMNS, rows |-> rows]

\* The DataFrame is written to output_path and exit_json reports the rows;
\* to_excel raises when the directory of the path does not exist.
WriteReport ==
  /\ pc = "write"
  /\ LET output_dir == output_path[1]
         made == IF all_metrics # <<>> /\ output_dir # "" /\ ~DirExists(output_dir)
                   THEN dirs \cup {output_dir}
                   ELSE dirs
     IN IF output_dir = "" \/ output_dir \in made
          THEN /\ dirs' = made
               /\ files' = [files EXCEPT ![output_path] = Report(all_metrics)]
               /\ outcome' = [status |-> "success",
                              changed |-> TRUE,
                              excel_file |-> output_path,
                              metrics |-> all_metrics,
                              msg |-> <<"Successfully collected metrics for",
                                        Len(host_names), "hosts">>]
               /\ pc' = "done"
               /\ UNCHANGED <<hi, locals, all_metrics, windows_used, rows_by_host>>
          ELSE FailRun("OSError")
  /\ UNCHANGED <<params, now, elapsed, requests, api_failed>>

Next ==
  \/ CheckLibrary
  \/ ConnectZabbix
  \/ GetHostId
  \/ Tick
  \/ GetAllItems
  \/ GetItem
  \/ HistoryGet
  \/ ExtendMetrics
  \/ WriteReport

Spec == Init /\ [][Next]_vars

NextCollect ==
  \/ CheckLibrary
  \/ ConnectZabbix
  \/ GetHostId
  \/ Tick
  \/ GetAllItems
  \/ GetItemAny
  \/ HistoryGetAny
  \/ ExtendMetrics
  \/ WriteReport

SpecCollect == InitCollect /\ [][NextCollect]_vars

\* get_timestamp_ekb2timestamp alone, called at any half hour of the two
\* days around Day0, and one second before it.
WindowClocks ==
  {(Day0 - 1) * SecondsPerDay + h * 1800 - e : h \in 0..95, e \in {0, 1}}

InitWindows == Start({<<>>}, {DefaultPath}, {TRUE}, Timezones, {WorkStart})

CallWindows ==
  /\ pc = "start"
  /\ \E t \in WindowClocks :
       /\ now' = t
       /\ day_ranges' = get_timestamp_ekb2timestamp(timezone_str, days_back, t)
  /\ pc' = "windows"
  /\ UNCHANGED <<params, elapsed, fs, hi, host_id, keys, ki, items, di, ii,
                 data, data_src, all_metrics, outcome, requests, api_failed,
                 windows_used, rows_by_host>>

SpecWindows == InitWindows /\ [][CallWindows]_vars

\* ------------------------------------------------------------ properties
Returned(item) == SumSeq(item.returned)
RowIndices(k) == {r \in 1..Len(data) : data_src[r] = k}
HistoryRequests == SelectSeq(requests, LAMBDA q : q.api = "history.get")

\* The float v divided by the int k.
DividedBy(v, k) == FloatDiv(v, k)

\* The float y is sum/n to one decimal: the float of a number of tenths that
\* lies within half a tenth of sum/n.
IsMean(y, sum, n) ==
  \E t \in {(10 * sum) \div n, (10 * sum) \div n + 1} :
    /\ y = ToFloat(t, 10)
    /\ 2 * (t * n - 10 * sum) <= n
    /\ 2 * (10 * sum - t * n) <= n

LocalOf(tz, utc) == utc + UtcOffset(tz, utc)
LocalDay(tz, utc) == LocalOf(tz, utc) \div SecondsPerDay
LocalClock(tz, utc) == LocalOf(tz, utc) % SecondsPerDay

\* C1: when collect_host_metrics returns, a resolved item has a row if and
\* only if its windows returned at least two samples in total, and then it
\* has exactly one row, carrying its name.
C1_RowIffTwoSamples ==
  pc = "extend" =>
    /\ Len(data) = Len(data_src)
    /\ \A k \in 1..Len(items) :
         /\ Returned(items[k]) >= 2 => Cardinality(RowIndices(k)) = 1
         /\ Returned(items[k]) < 2 => RowIndices(k) = {}
    /\ \A r \in 1..Len(data) :
         /\ data_src[r] \in 1..Len(items)
         /\ data[r][2] = items[data_src[r]].name

C1_Witness ==
  /\ pc = "extend"
  /\ \E k \in 1..Len(items) : Returned(items[k]) = 2 /\ RowIndices(k) # {}
  /\ \E k \in 1..Len(items) : Returned(items[k]) = 1 /\ RowIndices(k) = {}

\* C2: the unit label and the values of a row depend on the item's name
\* alone: "Bits received" or "Bits sent" gives "Mbps" and the totals divided
\* by 1,000,000; otherwise a Disk, CPU or Memory utilization gives "%", and
\* anything else "count", both with the totals as they are.
C2_UnitsByName ==
  pc = "extend" =>
    \A r \in 1..Len(data) :
      LET item == items[data_src[r]]
          total == item.list_of_total[1]
          row == data[r]
          bits == \/ Contains(<<"Bits", "received">>, item.name)
                  \/ Contains(<<"Bits", "sent">>, item.name)
          util == \E w \in {"Disk", "CPU", "Memory"} :
                    Contains(<<w, "utilization">>, item.name)
      IN /\ row[3] = (IF bits THEN "Mbps" ELSE IF util THEN "%" ELSE "count")
         /\ IF row[3] = "Mbps"
              THEN /\ row[4] = DividedBy(total.min, 1000000)
                   /\ row[5] = DividedBy(total.avg, 1000000)
                   /\ row[6] = DividedBy(total.max, 1000000)
              ELSE /\ row[4] = total.min
                   /\ row[5] = total.avg
                   /\ row[6] = total.max

C2_Witness ==
  /\ pc = "extend"
  /\ \E r \in 1..Len(data) :
       \* 1333333.7 bit/s is reported as 1.3333336999999998 Mbps, one unit in
       \* the last place below the double nearest to 1.3333337, whose lo is
       \* 130185613
       /\ data[r][3] = "Mbps"
       /\ items[data_src[r]].list_of_total[1].avg =
            [hi |-> 42666678, lo |-> 53687091, exp |-> -32]
       /\ data[r][5] = [hi |-> 44739254, lo |-> 130185612, exp |-> -52]
       /\ data[r][6] = [hi |-> 2^25, lo |-> 0, exp |-> -51]
  /\ \E r \in 1..Len(data) :
       /\ data[r][3] = "%"
       /\ data[r][6] = [hi |-> 64000000, lo |-> 0, exp |-> -32]

\* C3: a run whose requests all succeed and that collects no row ends in
\* success with a header-only report at the output path, whether or not the
\* directory of the path existed.
C3_EmptyReportWritten ==
  (pc = "done" /\ HAS_ZABBIX /\ ~api_failed /\ host_names # <<>> /\ all_metrics = <<>>) =>
    /\ outcome.status = "success"
    /\ DirExists(output_path[1])
    /\ files[output_path] = Report(<<>>)

\* C4: a run ends in success or in failure; a success reports the rows of
\* every requested host, host after host, each row with six fields and its
\* host's name first, and the report holds the same rows under the fixed
\* columns. A host's rows are in the order of its items.
C4_SuccessIsComplete ==
  /\ (pc = "done") <=> (outcome.status \in {"success", "failure"})
  /\ outcome.status # "running" => outcome.status \in {"success", "failure"}
  /\ pc = "extend" =>
       \A r \in 1..Len(data) :
         /\ r > 1 => data_src[r - 1] < data_src[r]
         /\ data[r][1] = host_names[hi]
  /\ outcome.status = "success" =>
       /\ Len(rows_by_host) = Len(host_names)
       /\ outcome.metrics = Flatten(rows_by_host)
       /\ files[output_path] =
            [exists |-> TRUE,
             columns |-> <<"Server", "Type", "unit measurements", "Min", "Avg", "Max">>,
             rows |-> outcome.metrics]
       /\ \A h \in 1..Len(rows_by_host) :
            \A r \in 1..Len(rows_by_host[h]) :
              /\ Len(rows_by_host[h][r]) = 6
              /\ rows_by_host[h][r][1] = host_names[h]
              /\ rows_by_host[h][r][3] \in {"Mbps", "%", "count"}

C4_Witness ==
  /\ outcome.status = "success"
  /\ Len(host_names) = 2
  /\ host_names[1] # host_names[2]
  /\ rows_by_host[1] # <<>>
  /\ rows_by_host[2] # <<>>

\* C5: once a request has failed the run has ended in failure with a message,
\* and from then on no request is sent and the report, the directories and
\* the result stay as they are; the report is as it was before the run.
C5_FailureIsFinal ==
  /\ [](api_failed =>
          /\ pc = "done"
          /\ outcome.status = "failure"
          /\ outcome.msg # <<>>
          /\ dirs = {"/tmp"}
          /\ files = [p \in OutputPaths |->
                        IF p = DefaultPath THEN StaleReport ELSE NoFile])
  /\ [][api_failed => UNCHANGED <<requests, dirs, files, outcome>>]_vars

C5_Witness ==
  /\ api_failed
  /\ hi = 2
  /\ all_metrics # <<>>
  /\ output_path = DefaultPath
  /\ requests[Len(requests)].api = "history.get"

\* C6: the generator returns days_back + 1 windows on consecutive days going
\* back from the anchor, which is the local date at or after 09:00 and the day
\* before earlier than that; each window is local 09:00 to 18:00 of its date,
\* and none starts after the current time.
C6_Windows ==
  pc = "windows" =>
    /\ Len(day_ranges) = days_back + 1
    /\ LocalDay(timezone_str, day_ranges[1].time_from) =
         (IF LocalClock(timezone_str, now) >= WorkStart * SecondsPerHour
            THEN LocalDay(timezone_str, now)
            ELSE LocalDay(timezone_str, now) - 1)
    /\ \A i \in 1..Len(day_ranges) :
         LET w == day_ranges[i]
         IN /\ LocalClock(timezone_str, w.time_from) = WorkStart * SecondsPerHour
            /\ LocalClock(timezone_str, w.time_till) = WorkEnd * SecondsPerHour
            /\ LocalDay(timezone_str, w.time_till) = LocalDay(timezone_str, w.time_from)
            /\ w.time_till - w.time_from = (WorkEnd - WorkStart) * SecondsPerHour
            /\ w.time_from < w.time_till
            /\ w.time_from <= now
            /\ w.date = CivilFromDays(LocalDay(timezone_str, w.time_from))
            /\ i > 1 => LocalDay(timezone_str, w.time_from) =
                          LocalDay(timezone_str, day_ranges[i - 1].time_from) - 1

C6_Witness ==
  /\ pc = "windows"
  /\ timezone_str = "Europe/Berlin"
  /\ LocalClock(timezone_str, now) < WorkStart * SecondsPerHour
  /\ Len(day_ranges) >= 2
  /\ day_ranges[1].time_from - day_ranges[2].time_from = 23 * SecondsPerHour

\* C7: the rows of a host never include two rows of the same item id.
C7_OneRowPerItem ==
  pc = "extend" =>
    \A r1, r2 \in 1..Len(data) :
      r1 # r2 => items[data_src[r1]].itemid # items[data_src[r2]].itemid

\* What the windows of an item returned, window after window.
ExpectedHistory(item) ==
  Flatten([w \in 1..Len(item.returned) |->
             [k \in 1..item.returned[w] |-> SampleAt(k)]])

AggregatedDays(item) == {w \in 1..Len(item.returned) : item.returned[w] >= 2}

\* C8: the running total of an item holds every sample of every window, also
\* of the windows that returned a single sample; a day has a daily aggregate
\* if and only if it returned at least two samples; the total aggregate counts
\* the samples of all windows and its min, avg and max are those of the whole
\* concatenation.
C8_TotalHoldsEverySample ==
  pc \in {"history", "extend"} =>
    \A k \in 1..Len(items) :
      LET item == items[k]
          all == item.list_of_history_for_total
      IN /\ Len(all) = Returned(item)
         /\ all = ExpectedHistory(item)
         /\ Len(item.list_of_days) = Cardinality(AggregatedDays(item))
         /\ {d.date : d \in Range(item.list_of_days)} =
              {day_ranges[w].date : w \in AggregatedDays(item)}
         /\ \A d \in Range(item.list_of_days) : d.history_count >= 2
         /\ pc = "extend" =>
              /\ (item.list_of_total # <<>>) <=> (Returned(item) >= 2)
              /\ Len(item.list_of_total) <= 1
              /\ item.list_of_total # <<>> =>
                   LET total == item.list_of_total[1]
                   IN /\ total.history_count = Returned(item)
                      /\ total.min = IntFloat(MinOf(all))
                      /\ total.max = IntFloat(MaxOf(all))
                      /\ IsMean(total.avg, SumSeq(all), Len(all))

C8_Witness ==
  /\ pc = "extend"
  /\ \E k \in 1..Len(items) :
       /\ items[k].returned = <<1, 1>>
       /\ items[k].list_of_days = <<>>
       /\ items[k].list_of_total # <<>>
       /\ items[k].list_of_total[1].history_count = 2

\* The n-th history request of a host whose items and windows are known.
ExpectedHistoryRequest(n) ==
  LET w == day_ranges[((n - 1) \div Len(items)) + 1]
      item == items[((n - 1) % Len(items)) + 1]
  IN [api |-> "history.get",
      itemids |-> item.itemid,
      time_from |-> w.time_from,
      time_till |-> w.time_till,
      history |-> IF \E i \in 1..Len(item.key_) : item.key_[i] = "net.if."
                    THEN 3 ELSE 0]

\* C9: the history requests of a host are one per window and item, windows
\* outermost, each with the window's bounds and with storage class 3 exactly
\* when the item's key contains "net.if."; a host without items sends none.
C9_HistoryRequests ==
  pc \in {"history", "extend"} =>
    LET sent == IF items = <<>> THEN 0
                ELSE IF pc = "extend" THEN Len(day_ranges) * Len(items)
                ELSE (di - 1) * Len(items) + (ii - 1)
    IN /\ Len(HistoryRequests) = sent
       /\ \A n \in 1..sent : HistoryRequests[n] = ExpectedHistoryRequest(n)

C9_Witness ==
  /\ pc = "extend"
  /\ Len(day_ranges) = 2
  /\ Len(items) = 2
  /\ items[1].itemid # items[2].itemid
  /\ Len(HistoryRequests) = 4
  /\ HistoryRequests[1].history = 3
  /\ HistoryRequests[2].history = 0

\* C10: within one run every host is given the same list of windows.
C10_SameWindows ==
  \A h \in 1..Len(windows_used) : windows_used[h] = windows_used[1]

====
